---------------------------- MODULE Spec2Model ----------------------------
(***************************************************************************)
(* NoticeConsoleRewriter (psiphon/utils.go): an io.Writer that buffers     *)
(* JSON notice bytes, cuts the buffer at a newline, decodes the line with  *)
(* encoding/json and prints "<timestamp> <noticeType> <data>\n".           *)
(*                                                                         *)
(* A byte is a one-character string, a byte slice a sequence of them.      *)
(* The JSON operators follow encoding/json for the inputs built below:     *)
(* objects, strings without escapes, unsigned integers, true/false/null.   *)
(* TrimError (same file) is modelled on the message of its error.          *)
(***************************************************************************)
EXTENDS Integers, Sequences, FiniteSets, TLC

\* ------------------------------------------------------------------ bounds
MaxCalls == 3

MaxCallsC == 3

\* ------------------------------------------------------------ byte slices
NL == <<"\n">>

SP == <<" ">>

At(s, i) == IF i \in 1..Len(s) THEN s[i] ELSE ""

\* Index with the end of the slice taken for a line end when there is no newline
IndexOrEnd(s) ==
  IF \E i \in 1..Len(s) : s[i] = "\n"
  THEN (CHOOSE i \in 1..Len(s) : s[i] = "\n" /\ \A j \in 1..(i-1) : s[j] # "\n") - 1
  ELSE Len(s)

\* bytes.LastIndex: the index of the last newline
IndexLast(s) ==
  IF \E i \in 1..Len(s) : s[i] = "\n"
  THEN (CHOOSE i \in 1..Len(s) : s[i] = "\n" /\ \A j \in (i+1)..Len(s) : s[j] # "\n") - 1
  ELSE -1

\* bytes.Index(buffer, []byte("\n")): 0-based index of the first newline, -1 if none
Index(s) ==
  IF \E i \in 1..Len(s) : s[i] = "\n"
  THEN (CHOOSE i \in 1..Len(s) : s[i] = "\n" /\ \A j \in 1..(i-1) : s[j] # "\n") - 1
  ELSE -1

\* buffer[:index]
LineOf(s, index) == SubSeq(s, 1, index)

\* buffer[index:], the newline stays in the buffer
RestOfKeepsNewline(s, index) == SubSeq(s, index + 1, Len(s))

\* buffer[index+2:], the byte after the newline is lost
RestOfSkipsByte(s, index) == SubSeq(s, index + 3, Len(s))

\* buffer[index+1:]
RestOf(s, index) == SubSeq(s, index + 2, Len(s))

\* ---------------------------------------------------- encoding/json scanner
IsSpace(c) == c \in {" ", "\t", "\r", "\n"}

IsDigit(c) == c \in {"0", "1", "2", "3", "4", "5", "6", "7", "8", "9"}

RECURSIVE SkipSpace(_, _)
SkipSpace(s, i) == IF IsSpace(At(s, i)) THEN SkipSpace(s, i + 1) ELSE i

\* the scanners return the position after the value that starts at i, 0 on a syntax error
ScanString(s, i) ==
  IF \E j \in (i+1)..Len(s) : s[j] = "\""
  THEN (CHOOSE j \in (i+1)..Len(s) : s[j] = "\"" /\ \A k \in (i+1)..(j-1) : s[k] # "\"") + 1
  ELSE 0

RECURSIVE ScanDigits(_, _)
ScanDigits(s, i) == IF IsDigit(At(s, i)) THEN ScanDigits(s, i + 1) ELSE i

ScanNumber(s, i) == IF s[i] = "0" THEN i + 1 ELSE ScanDigits(s, i)

ScanLiteral(s, i, lit) ==
  IF i + Len(lit) - 1 <= Len(s) /\ SubSeq(s, i, i + Len(lit) - 1) = lit
  THEN i + Len(lit) ELSE 0

RECURSIVE ScanValue(_, _)
RECURSIVE ScanMembers(_, _)
ScanMembers(s, j) ==
  IF At(s, j) # "\"" THEN 0
  ELSE LET k == ScanString(s, j) IN
    IF k = 0 THEN 0
    ELSE LET c == SkipSpace(s, k) IN
      IF At(s, c) # ":" THEN 0
      ELSE LET e == ScanValue(s, SkipSpace(s, c + 1)) IN
        IF e = 0 THEN 0
        ELSE LET d == SkipSpace(s, e) IN
          CASE At(s, d) = "," -> ScanMembers(s, SkipSpace(s, d + 1))
            [] At(s, d) = "}" -> d + 1
            [] OTHER -> 0

ScanObject(s, i) ==
  LET j == SkipSpace(s, i + 1) IN
  IF At(s, j) = "}" THEN j + 1 ELSE ScanMembers(s, j)

ScanValue(s, i) ==
  LET c == At(s, i) IN
  CASE c = "{" -> ScanObject(s, i)
    [] c = "\"" -> ScanString(s, i)
    [] IsDigit(c) -> ScanNumber(s, i)
    [] c = "t" -> ScanLiteral(s, i, <<"t", "r", "u", "e">>)
    [] c = "f" -> ScanLiteral(s, i, <<"f", "a", "l", "s", "e">>)
    [] c = "n" -> ScanLiteral(s, i, <<"n", "u", "l", "l">>)
    [] OTHER -> 0

\* checkValid: one JSON value, surrounded by optional white space, and nothing else
checkValid(s) ==
  LET e == ScanValue(s, SkipSpace(s, 1)) IN
  e # 0 /\ SkipSpace(s, e) = Len(s) + 1

\* ---------------------------------------------------- encoding/json decoder
upperCase ==
  <<"A", "B", "C", "D", "E", "F", "G", "H", "I", "J", "K", "L", "M",
    "N", "O", "P", "Q", "R", "S", "T", "U", "V", "W", "X", "Y", "Z">>

lowerCase ==
  <<"a", "b", "c", "d", "e", "f", "g", "h", "i", "j", "k", "l", "m",
    "n", "o", "p", "q", "r", "s", "t", "u", "v", "w", "x", "y", "z">>

ToLower(c) ==
  IF \E i \in 1..26 : upperCase[i] = c
  THEN lowerCase[CHOOSE i \in 1..26 : upperCase[i] = c]
  ELSE c

EqualFold(a, b) ==
  Len(a) = Len(b) /\ \A i \in 1..Len(a) : ToLower(a[i]) = ToLower(b[i])

tagNoticeType == <<"n", "o", "t", "i", "c", "e", "T", "y", "p", "e">>

tagData == <<"d", "a", "t", "a">>

tagTimestamp == <<"t", "i", "m", "e", "s", "t", "a", "m", "p">>

\* var noticeObject NoticeObject
NoticeObject == [NoticeType |-> <<>>, Data |-> <<>>, Timestamp |-> <<>>, err |-> "nil"]

\* a string field takes a JSON string, is left alone by null, and records a
\* type error (decoding goes on) for any other value
StoreString(obj, old, s, v, e) ==
  CASE At(s, v) = "\"" -> [val |-> SubSeq(s, v + 1, e - 2), err |-> obj.err]
    [] At(s, v) = "n" -> [val |-> old, err |-> obj.err]
    [] OTHER -> [val |-> old,
                 err |-> IF obj.err = "nil" THEN "UnmarshalTypeError" ELSE obj.err]

\* Store with data re-serialized in compact form instead of kept as raw text
StoreCompacted(obj, key, s, v, e) ==
  CASE EqualFold(key, tagData) ->
         [obj EXCEPT !.Data = SelectSeq(SubSeq(s, v, e - 1), LAMBDA c : ~IsSpace(c))]
    [] EqualFold(key, tagNoticeType) ->
         LET r == StoreString(obj, obj.NoticeType, s, v, e) IN
         [obj EXCEPT !.NoticeType = r.val, !.err = r.err]
    [] EqualFold(key, tagTimestamp) ->
         LET r == StoreString(obj, obj.Timestamp, s, v, e) IN
         [obj EXCEPT !.Timestamp = r.val, !.err = r.err]
    [] OTHER -> obj

\* the value s[v..e-1] of member key goes to the field the key names
Store(obj, key, s, v, e) ==
  CASE EqualFold(key, tagData) ->
         [obj EXCEPT !.Data = SubSeq(s, v, e - 1)]
    [] EqualFold(key, tagNoticeType) ->
         LET r == StoreString(obj, obj.NoticeType, s, v, e) IN
         [obj EXCEPT !.NoticeType = r.val, !.err = r.err]
    [] EqualFold(key, tagTimestamp) ->
         LET r == StoreString(obj, obj.Timestamp, s, v, e) IN
         [obj EXCEPT !.Timestamp = r.val, !.err = r.err]
    [] OTHER -> obj

\* the members of a valid object, the first key at j
RECURSIVE DecodeMembers(_, _, _)
DecodeMembers(s, j, obj) ==
  LET k == ScanString(s, j)
      v == SkipSpace(s, SkipSpace(s, k) + 1)
      e == ScanValue(s, v)
      d == SkipSpace(s, e)
      o == Store(obj, SubSeq(s, j + 1, k - 2), s, v, e)
  IN IF At(s, d) = "," THEN DecodeMembers(s, SkipSpace(s, d + 1), o) ELSE o

\* json.Unmarshal(line, &noticeObject)
Unmarshal(line) ==
  IF ~checkValid(line) THEN [NoticeObject EXCEPT !.err = "SyntaxError"]
  ELSE LET v == SkipSpace(line, 1) IN
    CASE line[v] = "{" ->
           LET j == SkipSpace(line, v + 1) IN
           IF line[j] = "}" THEN NoticeObject ELSE DecodeMembers(line, j, NoticeObject)
      [] line[v] = "n" -> NoticeObject
      [] OTHER -> [NoticeObject EXCEPT !.err = "UnmarshalTypeError"]

\* fmt.Fprintf(..., "%s %s %s\n", Timestamp, NoticeType, string(Data))
Sprintf(obj) == obj.Timestamp \o SP \o obj.NoticeType \o SP \o obj.Data \o NL


\* ------------------------------------------------------------------- input
\* the notice emitter's encoding of one record, without the final newline
Quote(x) == <<"\"">> \o x \o <<"\"">>

Member(key, value) == Quote(key) \o <<":">> \o value

NoticeLine(r) ==
  <<"{">> \o Member(tagNoticeType, Quote(r.N)) \o <<",">> \o Member(tagData, r.D)
    \o <<",">> \o Member(tagTimestamp, Quote(r.T)) \o <<"}">>

\* {"m": 1}
dataObject == <<"{">> \o Member(<<"m">>, <<" ", "1">>) \o <<"}">>

infoNotice == [T |-> <<"T">>, N |-> <<"I">>, D |-> dataObject]

alertNotice == [T |-> <<"U", "1">>, N |-> <<"J">>, D |-> Quote(<<"x">>)]

Notices == {infoNotice, alertNotice}

\* not JSON at all
garbageLine == <<"o", "o", "p", "s">>

\* JSON, but noticeType is a number: {"noticeType":5,"timestamp":"T"}
mistypedLine ==
  <<"{">> \o Member(tagNoticeType, <<"5">>) \o <<",">>
    \o Member(tagTimestamp, Quote(<<"T">>)) \o <<"}">>

ValidLines == { NoticeLine(r) : r \in Notices }

Lines == ValidLines \cup {garbageLine, mistypedLine}

FirstHalf(l) == SubSeq(l, 1, Len(l) \div 2)

SecondHalf(l) == SubSeq(l, Len(l) \div 2 + 1, Len(l))

\* the chunks a caller passes: nothing, a lone newline, the halves of a
\* record, one whole line, two whole lines
Chunks ==
  {<<>>, NL}
    \cup { FirstHalf(l) : l \in ValidLines } \cup { SecondHalf(l) \o NL : l \in ValidLines }
    \cup { l \o NL : l \in Lines }
    \cup { garbageLine \o NL \o NoticeLine(alertNotice) \o NL,
           NoticeLine(infoNotice) \o NL \o mistypedLine \o NL }

\* the sinks a rewriter is constructed over; the console client passes os.Stderr
Sinks == {"os.Stderr", "sink"}

\* ------------------------------------------------------------------- state
VARIABLES
  writer,    \* rewriter.writer
  buffer,    \* rewriter.buffer
  mutex,     \* rewriter.mutex: 0 when unlocked, else the goroutine holding it
  out,       \* the formatted lines handed to a destination, in order
  accepted,  \* all bytes appended to the buffer so far, in order
  ncalls,    \* number of Write calls that have returned
  last,      \* the Write call that returned last: argument, results, effects
  call,      \* per goroutine: position in Write and its locals
  extracted, \* the lines cut from the buffer so far, each with its newline
  granted,   \* the chunks of the calls that got the mutex, in that order
  message,   \* TrimError: the message of the error passed in
  result     \* TrimError: the error returned, or NoResult before the call

trimVars == <<message, result>>

vars == <<writer, buffer, mutex, out, accepted, ncalls, last, call,
          extracted, granted, message, result>>

Procs == {1, 2}

NoCall == [p |-> <<>>, before |-> <<>>, n |-> 0, err |-> "nil", nout |-> 0, failed |-> FALSE]

Idle == [pc |-> "idle", p |-> <<>>, before |-> <<>>, line |-> <<>>, nout |-> 0, failed |-> FALSE]

\* NewNoticeConsoleRewriter(writer): the buffer is nil, the mutex unlocked
NewNoticeConsoleRewriter(w) ==
  /\ writer = w
  /\ buffer = <<>>
  /\ mutex = 0

NoResult == [message |-> <<>>, same |-> FALSE, done |-> FALSE]

InitRewriter ==
  /\ \E w \in Sinks : NewNoticeConsoleRewriter(w)
  /\ out = <<>>
  /\ accepted = <<>>
  /\ ncalls = 0
  /\ last = NoCall
  /\ call = [g \in Procs |-> Idle]
  /\ extracted = <<>>
  /\ granted = <<>>

Init ==
  /\ InitRewriter
  /\ message = <<>>
  /\ result = NoResult

\* where Write prints the formatted line
Destination(w) == "os.Stderr"

\* the error Write returns; failed says whether printing the line failed
ReturnErr(failed) == "nil"

\* n as the number of bytes of p up to and with its first newline
ReturnNConsumed(p) == IF Index(p) = -1 THEN Len(p) ELSE Index(p) + 1

\* the (n, err) of both return statements
ReturnN(p) == Len(p)

\* Write(p) by a single caller, from Lock to the deferred Unlock; ok is the
\* outcome of printing the line, which the code does not look at
Write(p, ok) ==
  LET buf == buffer \o p
      index == Index(buf)
  IN
  /\ ncalls < MaxCalls
  /\ mutex = 0
  /\ accepted' = accepted \o p
  /\ granted' = granted \o p
  /\ ncalls' = ncalls + 1
  /\ IF index = -1
     THEN /\ buffer' = buf
          /\ out' = out
          /\ extracted' = extracted
          /\ last' = [p |-> p, before |-> buffer, n |-> ReturnN(p),
                      err |-> "nil", nout |-> 0, failed |-> FALSE]
     ELSE /\ buffer' = RestOf(buf, index)
          /\ extracted' = extracted \o LineOf(buf, index) \o NL
          /\ out' = Append(out, [dest |-> Destination(writer),
                                 text |-> Sprintf(Unmarshal(LineOf(buf, index)))])
          /\ last' = [p |-> p, before |-> buffer, n |-> ReturnN(p),
                      err |-> ReturnErr(~ok), nout |-> 1, failed |-> ~ok]
  /\ UNCHANGED <<writer, mutex, call, trimVars>>

Next == \E p \in Chunks, ok \in BOOLEAN : Write(p, ok)

Spec == Init /\ [][Next]_vars

\* ------------------------------------------------- concurrent callers
\* the chunks of the concurrent callers
ChunksC ==
  { FirstHalf(NoticeLine(infoNotice)), SecondHalf(NoticeLine(infoNotice)) \o NL,
    NoticeLine(alertNotice) \o NL, garbageLine \o NL,
    NoticeLine(infoNotice) \o NL \o mistypedLine \o NL }

\* a Lock that never waits
CanLockAlways(m) == TRUE

\* sync.Mutex: Lock goes through when the mutex is unlocked
CanLock(m) == m = 0

InWrite(g) == call[g].pc \in {"append", "index", "print", "return"}

\* goroutine g calls Write(p)
CallWrite(g, p) ==
  /\ call[g].pc = "idle"
  /\ ncalls + Cardinality({h \in Procs : call[h].pc # "idle"}) < MaxCallsC
  /\ call' = [call EXCEPT ![g] = [Idle EXCEPT !.pc = "lock", !.p = p]]
  /\ UNCHANGED <<writer, buffer, mutex, out, accepted, ncalls, last, extracted, granted, trimVars>>

\* rewriter.mutex.Lock()
Lock(g) ==
  /\ call[g].pc = "lock"
  /\ CanLock(mutex)
  /\ mutex' = g
  /\ granted' = granted \o call[g].p
  /\ call' = [call EXCEPT ![g].pc = "append"]
  /\ UNCHANGED <<writer, buffer, out, accepted, ncalls, last, extracted, trimVars>>

\* rewriter.buffer = append(rewriter.buffer, p...)
AppendChunk(g) ==
  /\ call[g].pc = "append"
  /\ buffer' = buffer \o call[g].p
  /\ accepted' = accepted \o call[g].p
  /\ call' = [call EXCEPT ![g].pc = "index", ![g].before = buffer]
  /\ UNCHANGED <<writer, mutex, out, ncalls, last, extracted, granted, trimVars>>

\* index := bytes.Index(...); the early return, or line and buffer are cut
CutLine(g) ==
  LET index == Index(buffer) IN
  /\ call[g].pc = "index"
  /\ IF index = -1
     THEN /\ call' = [call EXCEPT ![g].pc = "return"]
          /\ buffer' = buffer
          /\ extracted' = extracted
     ELSE /\ call' = [call EXCEPT ![g].pc = "print", ![g].line = LineOf(buffer, index)]
          /\ buffer' = RestOf(buffer, index)
          /\ extracted' = extracted \o LineOf(buffer, index) \o NL
  /\ UNCHANGED <<writer, mutex, out, accepted, ncalls, last, granted, trimVars>>

\* json.Unmarshal and fmt.Fprintf
PrintLine(g, ok) ==
  /\ call[g].pc = "print"
  /\ out' = Append(out, [dest |-> Destination(writer),
                         text |-> Sprintf(Unmarshal(call[g].line))])
  /\ call' = [call EXCEPT ![g].pc = "return", ![g].nout = 1, ![g].failed = ~ok]
  /\ UNCHANGED <<writer, buffer, mutex, accepted, ncalls, last, extracted, granted, trimVars>>

\* Return with the Unlock missing on the early return (no line was cut)
ReturnEarlyKeepsLock(g) ==
  /\ call[g].pc = "return"
  /\ mutex' = IF call[g].nout = 0 THEN mutex ELSE 0
  /\ last' = [p |-> call[g].p, before |-> call[g].before, n |-> ReturnN(call[g].p),
              err |-> IF call[g].nout = 0 THEN "nil" ELSE ReturnErr(call[g].failed),
              nout |-> call[g].nout, failed |-> call[g].failed]
  /\ ncalls' = ncalls + 1
  /\ call' = [call EXCEPT ![g] = Idle]
  /\ UNCHANGED <<writer, buffer, out, accepted, extracted, granted, trimVars>>

\* return len(p), nil, and the deferred rewriter.mutex.Unlock()
Return(g) ==
  /\ call[g].pc = "return"
  /\ mutex' = 0
  /\ last' = [p |-> call[g].p, before |-> call[g].before, n |-> ReturnN(call[g].p),
              err |-> IF call[g].nout = 0 THEN "nil" ELSE ReturnErr(call[g].failed),
              nout |-> call[g].nout, failed |-> call[g].failed]
  /\ ncalls' = ncalls + 1
  /\ call' = [call EXCEPT ![g] = Idle]
  /\ UNCHANGED <<writer, buffer, out, accepted, extracted, granted, trimVars>>

NextC ==
  \E g \in Procs :
    \/ \E p \in ChunksC : CallWrite(g, p)
    \/ Lock(g)
    \/ AppendChunk(g)
    \/ CutLine(g)
    \/ \E ok \in BOOLEAN : PrintLine(g, ok)
    \/ Return(g)

SpecC == Init /\ [][NextC]_vars

\* a step of goroutine g inside Write, Lock included
Step(g) ==
  \/ Lock(g)
  \/ AppendChunk(g)
  \/ CutLine(g)
  \/ \E ok \in BOOLEAN : PrintLine(g, ok)
  \/ Return(g)

\* the scheduler runs every goroutine that can take a step: a goroutine
\* inside Write goes on, and a goroutine waiting in Lock gets the mutex when
\* it stays unlocked
Fairness == \A g \in Procs : WF_vars(Step(g))

\* the chunks of the callers whose progress is checked: the early return,
\* the print, a backlog; the lines are not objects, ENABLED of a step then
\* costs little
ChunksL ==
  { FirstHalf(garbageLine), SecondHalf(garbageLine) \o NL, garbageLine \o NL,
    <<"5">> \o NL \o garbageLine \o NL }

NextL == \E g \in Procs : (\E p \in ChunksL : CallWrite(g, p)) \/ Step(g)

SpecL == Init /\ [][NextL]_vars /\ Fairness

\* ---------------------------------------------------------- TrimError
MAX_LEN == 100

MaxMessageLen == 106

messageBytes == <<"a", "b", "c", "d", "e", "f", "g">>

\* the error messages passed in: every length, two patterns of bytes
Messages ==
  { [i \in 1..n |-> messageBytes[((i * k) % 7) + 1]] : n \in 0..MaxMessageLen, k \in {1, 3} }

\* TrimError with the suffix starting one byte early
TrimErrorLongSuffix(m) ==
  IF Len(m) > MAX_LEN
  THEN [message |-> SubSeq(m, 1, MAX_LEN \div 2) \o <<".", ".", ".">>
                      \o SubSeq(m, Len(m) - MAX_LEN \div 2, Len(m)),
        same |-> FALSE, done |-> TRUE]
  ELSE [message |-> m, same |-> TRUE, done |-> TRUE]

\* TrimError(err) for an error with message m: errors.New(...) or err itself
TrimError(m) ==
  IF Len(m) > MAX_LEN
  THEN [message |-> SubSeq(m, 1, MAX_LEN \div 2) \o <<".", ".", ".">>
                      \o SubSeq(m, Len(m) - MAX_LEN \div 2 + 1, Len(m)),
        same |-> FALSE, done |-> TRUE]
  ELSE [message |-> m, same |-> TRUE, done |-> TRUE]

InitT ==
  /\ InitRewriter
  /\ message \in Messages
  /\ result = NoResult

CallTrimError ==
  /\ ~result.done
  /\ result' = TrimError(message)
  /\ UNCHANGED <<writer, buffer, mutex, out, accepted, ncalls, last, call,
                 extracted, granted, message>>

NextT == CallTrimError

SpecT == InitT /\ [][NextT]_vars

\* ---------------------------------------------------------- properties
\* the positions of the newlines of a byte slice
NewlinePositions(s) == { i \in 1..Len(s) : s[i] = "\n" }

NumLines(s) == Cardinality(NewlinePositions(s))

\* the position of the newline that ends the k-th complete line of s
LineEnd(s, k) ==
  CHOOSE i \in NewlinePositions(s) :
    Cardinality({ j \in NewlinePositions(s) : j <= i }) = k

\* the k-th complete line of s, without its newline
NthLine(s, k) ==
  SubSeq(s, IF k = 1 THEN 1 ELSE LineEnd(s, k - 1) + 1, LineEnd(s, k) - 1)

\* what is left of s after its first k complete lines
AfterLines(s, k) == SubSeq(s, IF k = 0 THEN 1 ELSE LineEnd(s, k) + 1, Len(s))

IsProperPrefix(a, b) == Len(a) < Len(b) /\ a = SubSeq(b, 1, Len(a))

\* "<timestamp> <noticeType> <data>\n" of a record
ExpectedLine(r) == r.T \o SP \o r.N \o SP \o r.D \o NL

BlankLine == <<" ", " ", "\n">>

\* the texts of the last n entries of out
LastOut(n) == [k \in 1..n |-> out[Len(out) - n + k].text]

\* C1: when a Write call has returned, every complete line of (buffer before
\* the call ++ chunk) was formatted and printed during that call, in order.
DrainAll ==
  ncalls > 0 =>
    LET s == last.before \o last.p IN
    /\ last.nout = NumLines(s)
    /\ LastOut(last.nout) = [k \in 1..NumLines(s) |-> Sprintf(Unmarshal(NthLine(s, k)))]

\* C2: after every Write call the buffer holds no newline byte.
BufferHasNoNewline == NewlinePositions(buffer) = {}

\* C3: every formatted line goes to the sink the rewriter was constructed over.
OutputGoesToSink == \A i \in 1..Len(out) : out[i].dest = writer

\* C4: while only a part of one valid line, without its newline, has been
\* written to a fresh rewriter there is no output; when the call that brings
\* the newline has returned there is exactly one output line, the formatted
\* record, printed by that call.
PartialRecord ==
  \A r \in Notices :
    /\ IsProperPrefix(accepted, NoticeLine(r) \o NL) => out = <<>>
    /\ accepted = NoticeLine(r) \o NL =>
         /\ Len(out) = 1
         /\ out[1].text = ExpectedLine(r)
         /\ NumLines(last.p) = 1 => last.nout = 1

PartialRecordWitness ==
  \E r \in Notices :
    /\ accepted = NoticeLine(r) \o NL
    /\ ncalls >= 2
    /\ last.before = FirstHalf(NoticeLine(r))
    /\ last.p = SecondHalf(NoticeLine(r)) \o NL
    /\ Len(out) = 1

\* C5: a Write of a zero-length chunk prints nothing and leaves the buffer
\* as it was, in every state.
EmptyChunkNoOp ==
  (ncalls > 0 /\ last.p = <<>>) => (last.nout = 0 /\ buffer = last.before)

\* C6: the printed lines are the formatted images of the first complete
\* lines of the input, one for one and in arrival order.
OrderedOneToOne ==
  /\ Len(out) <= NumLines(accepted)
  /\ \A i \in 1..Len(out) : out[i].text = Sprintf(Unmarshal(NthLine(accepted, i)))

OrderedOneToOneWitness ==
  /\ Len(out) = 2
  /\ NumLines(accepted) > 2
  /\ out[1].text # out[2].text
  /\ out[2].text # Sprintf(Unmarshal(NthLine(accepted, 3)))

\* C7: the goroutine inside Write holds the mutex from the append to the
\* return, no two goroutines are inside Write together, the buffer is what
\* follows the lines cut so far in the bytes appended so far, and the lines
\* are printed in the order of their bytes.
WritersSerialized ==
  LET cut == Len(out) + Cardinality({ g \in Procs : call[g].pc = "print" }) IN
  /\ \A g \in Procs : InWrite(g) => mutex = g
  /\ \A g, h \in Procs : (InWrite(g) /\ InWrite(h)) => g = h
  /\ cut <= NumLines(accepted)
  /\ buffer = AfterLines(accepted, cut)
  /\ \A g \in Procs : call[g].pc = "print" => call[g].line = NthLine(accepted, cut)
  /\ \A i \in 1..Len(out) : out[i].text = Sprintf(Unmarshal(NthLine(accepted, i)))

WritersSerializedWitness ==
  \E g, h \in Procs :
    /\ call[g].pc = "print"
    /\ call[h].pc = "lock"
    /\ Len(out) = 1
    /\ NumLines(buffer) = 1

\* C8: Write returns a non-nil error exactly when the sink's write of the
\* formatted line failed during the call.
SinkWriteFailed == last.failed /\ out[Len(out)].dest = writer

SinkFailureSurfaced == ncalls > 0 => (SinkWriteFailed <=> last.err # "nil")

\* C9: every line that is not JSON has, once its newline was written, exactly
\* one output line, with empty fields; Write returned no error; and every
\* valid record after it has its output line with its fields.
MalformedDegrades ==
  \A i \in 1..NumLines(accepted) :
    Unmarshal(NthLine(accepted, i)).err = "SyntaxError" =>
      /\ i <= Len(out)
      /\ out[i].text = BlankLine
      /\ last.err = "nil"
      /\ \A j \in (i + 1)..NumLines(accepted), r \in Notices :
           NthLine(accepted, j) = NoticeLine(r) =>
             (j <= Len(out) /\ out[j].text = ExpectedLine(r))

\* C10: a valid record and its newline, written in one call to a rewriter
\* whose buffer is empty, gives exactly one output line: timestamp, space,
\* noticeType, space, the text of data as it was, newline.
SingleRecordFormat ==
  \A r \in Notices :
    (ncalls > 0 /\ last.before = <<>> /\ last.p = NoticeLine(r) \o NL) =>
      (last.nout = 1 /\ out[Len(out)].text = ExpectedLine(r))

SingleRecordFormatWitness ==
  /\ ncalls >= 2
  /\ last.before = <<>>
  /\ last.p = NoticeLine(infoNotice) \o NL
  /\ out[Len(out)].text = <<"T", " ", "I", " ", "{", "\"", "m", "\"", ":", " ", "1", "}", "\n">>

\* C11: a Write call on which the print did not fail returns the length of
\* its chunk and a nil error, with or without a line completed, and the
\* whole chunk went into the buffer.
FullAcceptance ==
  (ncalls > 0 /\ ~last.failed) =>
    /\ last.n = Len(last.p)
    /\ last.err = "nil"
    /\ Len(buffer) + (IF last.nout = 0 THEN 0
                      ELSE Len(NthLine(last.before \o last.p, 1)) + 1)
         = Len(last.before) + Len(last.p)

FullAcceptanceWitness ==
  /\ ncalls >= 2
  /\ ~last.failed
  /\ NumLines(last.p) = 2
  /\ last.n = Len(last.p)
  /\ last.nout = 1

\* the first 50 bytes, "...", the last 50 bytes
Elided(m) == SubSeq(m, 1, 50) \o <<".", ".", ".">> \o SubSeq(m, Len(m) - 49, Len(m))

\* C12 as stated: a message of more than 100 characters comes back as its
\* first 50 characters, "...", its last 50 characters, and strictly shorter
\* than it was; a message of at most 100 characters comes back unchanged.
TrimErrorShortens ==
  result.done =>
    IF Len(message) > 100
    THEN result.message = Elided(message) /\ Len(result.message) < Len(message)
    ELSE result.same /\ result.message = message

\* C12: a message of more than 100 characters comes back as its first 50
\* characters, "...", its last 50 characters, 103 characters in all, which is
\* strictly shorter than it was when it had more than 103 characters; a
\* message of at most 100 characters comes back unchanged.
TrimErrorBudget ==
  result.done =>
    IF Len(message) > 100
    THEN /\ result.message = Elided(message)
         /\ ~result.same
         /\ Len(result.message) = 103
         /\ Len(message) > 103 => Len(result.message) < Len(message)
    ELSE result.same /\ result.message = message

TrimErrorBudgetWitness ==
  /\ result.done
  /\ Len(message) = 104
  /\ Len(result.message) = 103
  /\ result.message # SubSeq(message, 1, 103)

\* C13: a Write call prints at most one line, the line before the first
\* newline of (buffer before the call ++ chunk); whatever follows that
\* newline, further complete lines included, is the buffer after the call.
OneLinePerCall ==
  ncalls > 0 =>
    LET s == last.before \o last.p IN
    IF NumLines(s) = 0
    THEN last.nout = 0 /\ buffer = s
    ELSE /\ last.nout = 1
         /\ out[Len(out)].text = Sprintf(Unmarshal(NthLine(s, 1)))
         /\ buffer = AfterLines(s, 1)
         /\ NumLines(buffer) = NumLines(s) - 1

OneLinePerCallWitness ==
  /\ ncalls >= 2
  /\ NumLines(last.before) = 1
  /\ NumLines(last.p) = 1
  /\ last.nout = 1
  /\ NumLines(buffer) = 1
  /\ buffer = last.p

\* C14: the lines cut so far, each with its newline, followed by the buffer
\* (and by the chunk of the goroutine that holds the mutex and has not yet
\* appended) are the chunks of the calls in the order they got the mutex.
PendingChunk ==
  IF \E g \in Procs : call[g].pc = "append"
  THEN call[CHOOSE g \in Procs : call[g].pc = "append"].p
  ELSE <<>>

ByteConservation ==
  /\ extracted \o buffer = accepted
  /\ accepted \o PendingChunk = granted

ByteConservationWitness ==
  /\ NumLines(extracted) = 2
  /\ buffer # <<>>
  /\ \E g, h \in Procs : call[g].pc = "lock" /\ call[h].pc = "return"

\* what a fresh rewriter prints, and what its buffer is, after one Write(s)
OneChunkOut(s) ==
  IF Index(s) = -1 THEN <<>> ELSE <<Sprintf(Unmarshal(LineOf(s, Index(s))))>>

OneChunkBuffer(s) == IF Index(s) = -1 THEN s ELSE RestOf(s, Index(s))

\* C15: however the bytes written so far were split into chunks, the lines
\* printed and the buffer are those of a fresh rewriter that got the same
\* bytes in one chunk (so any two splittings of a stream agree).
ChunkingIndependent ==
  /\ [i \in 1..Len(out) |-> out[i].text] = OneChunkOut(accepted)
  /\ buffer = OneChunkBuffer(accepted)

Max(a, b) == IF a >= b THEN a ELSE b

\* C16: a Write call that finds b newlines in the buffer and brings c in its
\* chunk leaves max(0, b + c - 1) in the buffer, so the count goes down only
\* on a chunk without a newline; and nothing is printed except by a Write call.
BacklogDynamics ==
  [][ /\ ncalls' = ncalls + 1 =>
           LET b == NumLines(buffer)
               c == NumLines(last'.p)
           IN /\ NumLines(buffer') = Max(0, b + c - 1)
              /\ NumLines(buffer') < b => c = 0
      /\ out' # out => ncalls' = ncalls + 1 ]_vars

BacklogDynamicsWitness ==
  /\ NumLines(last.before) = 1
  /\ NumLines(last.p) = 0
  /\ last.p # <<>>
  /\ last.nout = 1
  /\ NumLines(buffer) = 0

\* C17: when no goroutine is inside Write the mutex is unlocked, whichever
\* return was taken, and every Write call that was started returns.
LockReleasedAndProgress ==
  /\ []((\A g \in Procs : ~InWrite(g)) => mutex = 0)
  /\ \A g \in Procs : (call[g].pc # "idle") ~> (call[g].pc = "idle")

LockReleasedAndProgressWitness ==
  /\ ncalls >= 1
  /\ last.nout = 0
  /\ mutex = 0
  /\ \E g \in Procs : call[g].pc = "lock"

=============================================================================
